---- MODULE Spec2Model ----
(***************************************************************************)
(* A model of pagerank.py: transition_model, sample_pagerank and           *)
(* iterate_pagerank, over small corpora.  Python's floats are modelled as   *)
(* exact rationals <<numerator, denominator>> in lowest terms.             *)
(***************************************************************************)
EXTENDS Integers, FiniteSets, Sequences, TLC

VARIABLES
    corpus,          \* the corpus argument: page -> set of linked pages
    damping_factor,  \* the damping_factor argument
    n,               \* the n argument of sample_pagerank
    pc,              \* where the called function is
    page,            \* sample_pagerank: page; transition_model: its page argument
    i,               \* sample_pagerank: rounds of the for loop completed
    pagerank,        \* sample_pagerank: pagerank, the visit counters
    visits,          \* number of times line 130 was executed
    base_rank,       \* iterate_pagerank: base_rank
    link_rank,       \* iterate_pagerank: link_rank
    todo,            \* iterate_pagerank: items of corpus.items() still to come
    total_rank,      \* iterate_pagerank: total_rank of line 195
    result           \* the dict returned

vars == <<corpus, damping_factor, n, pc, page, i, pagerank, visits,
          base_rank, link_rank, todo, total_rank, result>>

(* ------------------------------ bounds -------------------------------- *)

\* Largest number of pages of a corpus passed to transition_model and
\* iterate_pagerank alone (FunSpec).
MaxPages == 3

\* Largest number of pages of a corpus the random surfer walks (Spec).
MaxWalkPages == 2

\* Largest sample count n passed to sample_pagerank.
MaxN == 3

\* Visits counted exactly by the model; later visits of a run are not counted
\* and the run is marked inexact (visits = MaxVisits + 1).
MaxVisits == 6

(* ------------------------- exact rationals ---------------------------- *)

Abs(x) == IF x < 0 THEN -x ELSE x

RECURSIVE GCD(_, _)
GCD(a, b) == IF b = 0 THEN a ELSE GCD(b, a % b)

\* a/b in lowest terms with a positive denominator (b # 0).
Frac(a, b) ==
    LET s == IF b < 0 THEN -1 ELSE 1
        g == GCD(Abs(a), Abs(b))
    IN  <<(s * a) \div g, (s * b) \div g>>

Zero == <<0, 1>>
One == <<1, 1>>
RInt(k) == <<k, 1>>
RAdd(x, y) == Frac(x[1] * y[2] + y[1] * x[2], x[2] * y[2])
RSub(x, y) == Frac(x[1] * y[2] - y[1] * x[2], x[2] * y[2])
RMul(x, y) == Frac(x[1] * y[1], x[2] * y[2])
RDiv(x, y) == Frac(x[1] * y[2], x[2] * y[1])
RLess(x, y) == x[1] * y[2] < y[1] * x[2]
RLeq(x, y) == x[1] * y[2] <= y[1] * x[2]
RAbs(x) == <<Abs(x[1]), x[2]>>

\* sum(f.values()) for a mapping f of rationals.
RECURSIVE RSumOver(_, _)
RSumOver(f, S) ==
    IF S = {} THEN Zero
    ELSE LET q == CHOOSE x \in S : TRUE
         IN  RAdd(f[q], RSumOver(f, S \ {q}))

RSum(f) == RSumOver(f, DOMAIN f)

\* sum(f.values()) for a mapping f of integers.
RECURSIVE SumOver(_, _)
SumOver(f, S) ==
    IF S = {} THEN 0
    ELSE LET q == CHOOSE x \in S : TRUE
         IN  f[q] + SumOver(f, S \ {q})

Sum(f) == SumOver(f, DOMAIN f)

\* The empty dict.
EmptyDict == [q \in {} |-> Zero]

(* ------------------------------ inputs -------------------------------- *)

\* The corpora crawl can return: every page maps to a set of other pages of
\* the corpus (links to itself and to pages outside the corpus are removed).
\* crawl without "- {filename}" at line 50: a page may link to itself.
crawl_keeps_self_links(N) ==
    [1..N -> SUBSET (1..N)]

crawl(N) ==
    { c \in [1..N -> SUBSET (1..N)] : \A p \in DOMAIN c : p \notin c[p] }

\* The corpora of at most M pages.
Corpora(M) == UNION { crawl(N) : N \in 0..M }

\* DAMPING = 0.85
DAMPING == <<17, 20>>

\* Damping factors passed by a caller: the valid 1/2, DAMPING and 1, and the
\* invalid 0 and 3/2.
Dampings == { Zero, <<1, 2>>, DAMPING, One, <<3, 2>> }

ValidDamping(d) == RLess(Zero, d) /\ RLeq(d, One)

\* Outcomes of random.random(), a float of [0, 1).
Draws == { Zero, <<1, 2>>, <<9, 10>> }

(* -------------------------- transition_model -------------------------- *)

linked_page(c, p) == c[p]

\* tm_damping without line 82: damping_factor is not reset to 0.
tm_damping_not_reset(c, p, d) == d

\* damping_factor after lines 76-82: 0 for a page without links.
tm_damping(c, p, d) ==
    IF Cardinality(linked_page(c, p)) > 0 THEN d ELSE Zero

\* none_linked_pages without the "not in linked_page" filter of line 90.
none_linked_pages_unfiltered(c, p) == DOMAIN c

\* Line 90.
none_linked_pages(c, p) ==
    { q \in DOMAIN c : q \notin linked_page(c, p) }

\* The dict built by lines 75-93 (the dict returned at line 102).
transition_model(c, p, d) ==
    LET linked == linked_page(c, p)
        none   == none_linked_pages(c, p)
        df     == tm_damping(c, p, d)
    IN  [q \in linked \cup none |->
            IF q \in none
            THEN RDiv(RSub(One, df), RInt(Cardinality(none)))
            ELSE RDiv(d, RInt(Cardinality(linked)))]

\* Line 99-100: the call transition_model(corpus, page, 1) is reached.
tm_recurses(c, p, d) ==
    /\ Cardinality(none_linked_pages(c, p)) = 0
    /\ tm_damping(c, p, d) # Zero

(* ------------------------------- states ------------------------------- *)

\* The state before a call, for a corpus of the set C.
Start(C) ==
    /\ corpus \in C
    /\ damping_factor \in Dampings
    /\ n \in -1..MaxN
    /\ pc = "idle"
    /\ page = 0
    /\ i = 0
    /\ pagerank = [q \in {} |-> 0]
    /\ visits = 0
    /\ base_rank = EmptyDict
    /\ link_rank = EmptyDict
    /\ todo = {}
    /\ total_rank = EmptyDict
    /\ result = EmptyDict

Init == Start(Corpora(MaxWalkPages))

FunInit == Start(Corpora(MaxPages))

\* A call transition_model(corpus, p, damping_factor).  The recursive call
\* of line 100 meets the same two conditions again, so the recursion has no
\* end and Python raises RecursionError.
TransitionModel ==
    /\ pc = "idle"
    /\ \E p \in DOMAIN corpus :
        /\ page' = p
        /\ IF tm_recurses(corpus, p, damping_factor)
           THEN /\ pc' = "tm_error"
                /\ result' = result
           ELSE /\ pc' = "tm_done"
                /\ result' = transition_model(corpus, p, damping_factor)
    /\ UNCHANGED <<corpus, damping_factor, n, i, pagerank, visits,
                   base_rank, link_rank, todo, total_rank>>

(* --------------------------- sample_pagerank -------------------------- *)

\* Line 119: every page starts with score 0; the loop of line 123 begins.
SampleStart ==
    /\ pc = "idle"
    /\ pagerank' = [q \in DOMAIN corpus |-> 0]
    /\ i' = 0
    /\ pc' = "for"
    /\ UNCHANGED <<corpus, damping_factor, n, page, visits,
                   base_rank, link_rank, todo, total_rank, result>>

\* Lines 123-126: the next of the n rounds starts at a random page
\* (random.choice raises IndexError on an empty corpus), or the loop ends.
ForNext ==
    /\ pc = "for"
    /\ IF i < n
       THEN IF DOMAIN corpus = {}
            THEN pc' = "sample_error" /\ page' = page
            ELSE pc' = "visit" /\ page' \in DOMAIN corpus
       ELSE pc' = "normalize" /\ page' = page
    /\ UNCHANGED <<corpus, damping_factor, n, i, pagerank, visits,
                   base_rank, link_rank, todo, total_rank, result>>

\* CountVisit with "= 1" for "+= 1" at line 130.
CountVisit_assigns(pr, p, v) ==
    IF v < MaxVisits THEN [pr EXCEPT ![p] = 1] ELSE pr

\* pagerank[page] += 1, counted while visits < MaxVisits.
CountVisit(pr, p, v) ==
    IF v < MaxVisits THEN [pr EXCEPT ![p] = @ + 1] ELSE pr

\* Line 130.
Visit ==
    /\ pc = "visit"
    /\ pagerank' = CountVisit(pagerank, page, visits)
    /\ visits' = IF visits <= MaxVisits THEN visits + 1 ELSE visits
    /\ pc' = "draw"
    /\ UNCHANGED <<corpus, damping_factor, n, page, i,
                   base_rank, link_rank, todo, total_rank, result>>

\* Line 141: random.random() < damping_factor.
Follows(r, d) == RLess(r, d)

\* Lines 144-151: the pages the surfer may move to from p.
NextPages(c, p) ==
    IF c[p] # {} THEN c[p] ELSE DOMAIN c

\* Lines 141-151: the draw is below damping_factor and the surfer moves on.
Follow ==
    /\ pc = "draw"
    /\ \E r \in Draws :
        /\ Follows(r, damping_factor)
        /\ page' \in NextPages(corpus, page)
    /\ pc' = "visit"
    /\ UNCHANGED <<corpus, damping_factor, n, i, pagerank, visits,
                   base_rank, link_rank, todo, total_rank, result>>

\* Lines 152-153: the draw is not below damping_factor; the round ends.
Break ==
    /\ pc = "draw"
    /\ \E r \in Draws : ~Follows(r, damping_factor)
    /\ i' = i + 1
    /\ pc' = "for"
    /\ UNCHANGED <<corpus, damping_factor, n, page, pagerank, visits,
                   base_rank, link_rank, todo, total_rank, result>>

\* Line 156.
total_score(pr) == Sum(pr)

\* Line 157: score / total_score for every page.
pages_rank(pr) ==
    [q \in DOMAIN pr |-> Frac(pr[q], total_score(pr))]

\* Lines 156-161: a division by a total_score of 0 raises ZeroDivisionError
\* (there is no division when the corpus has no page).
Normalize ==
    /\ pc = "normalize"
    /\ IF DOMAIN pagerank # {} /\ total_score(pagerank) = 0
       THEN pc' = "sample_error" /\ result' = result
       ELSE pc' = "sample_done" /\ result' = pages_rank(pagerank)
    /\ UNCHANGED <<corpus, damping_factor, n, page, i, pagerank, visits,
                   base_rank, link_rank, todo, total_rank>>

(* -------------------------- iterate_pagerank -------------------------- *)

\* Line 177: (1 - damping_factor) / len(corpus).
base_rank_score(c, d) ==
    RDiv(RSub(One, d), RInt(Cardinality(DOMAIN c)))

\* Lines 177-180: len(corpus) = 0 raises ZeroDivisionError at line 177.
IterateStart ==
    /\ pc = "idle"
    /\ IF DOMAIN corpus = {}
       THEN /\ pc' = "iterate_error"
            /\ UNCHANGED <<base_rank, link_rank, todo>>
       ELSE /\ pc' = "link"
            /\ base_rank' =
                 [q \in DOMAIN corpus |-> base_rank_score(corpus, damping_factor)]
            /\ link_rank' = [q \in DOMAIN corpus |-> Zero]
            /\ todo' = DOMAIN corpus
    /\ UNCHANGED <<corpus, damping_factor, n, page, i, pagerank, visits,
                   total_rank, result>>

\* Line 191: what current_page adds to the link rank of each page it links to.
contribution(c, br, d, current_page) ==
    RDiv(RMul(br[current_page], d), RInt(Cardinality(c[current_page])))

\* Lines 189-191: the inner loop for one current_page.
add_links(c, br, lr, d, current_page) ==
    [q \in DOMAIN lr |->
        IF q \in c[current_page]
        THEN RAdd(lr[q], contribution(c, br, d, current_page))
        ELSE lr[q]]

\* Line 187: the items of corpus are taken in the dict's order.
next_item(S) == CHOOSE p \in S : \A q \in S : p <= q

\* Lines 187-191: one round of the outer loop.
IterateLink ==
    /\ pc = "link"
    /\ todo # {}
    /\ LET current_page == next_item(todo)
       IN  /\ link_rank' =
                add_links(corpus, base_rank, link_rank, damping_factor, current_page)
           /\ todo' = todo \ {current_page}
    /\ UNCHANGED <<corpus, damping_factor, n, pc, page, i, pagerank, visits,
                   base_rank, total_rank, result>>

\* Line 195: link rank plus base rank.
IterateTotal ==
    /\ pc = "link"
    /\ todo = {}
    /\ total_rank' =
         [q \in DOMAIN link_rank |->
             RAdd(link_rank[q], base_rank_score(corpus, damping_factor))]
    /\ pc' = "normalize_total"
    /\ UNCHANGED <<corpus, damping_factor, n, page, i, pagerank, visits,
                   base_rank, link_rank, todo, result>>

\* Line 199: score / total_score for every page.
normalized(tr) ==
    [q \in DOMAIN tr |-> RDiv(tr[q], RSum(tr))]

\* Lines 198-201: a total_score of 0 raises ZeroDivisionError at line 199.
IterateNormalize ==
    /\ pc = "normalize_total"
    /\ IF RSum(total_rank) = Zero
       THEN pc' = "iterate_error" /\ result' = result
       ELSE pc' = "iterate_done" /\ result' = normalized(total_rank)
    /\ UNCHANGED <<corpus, damping_factor, n, page, i, pagerank, visits,
                   base_rank, link_rank, todo, total_rank>>

\* Calls of the two functions that draw nothing at random.
FunNext ==
    \/ TransitionModel
    \/ IterateStart
    \/ IterateLink
    \/ IterateTotal
    \/ IterateNormalize

Next ==
    \/ FunNext
    \/ SampleStart
    \/ ForNext
    \/ Visit
    \/ Follow
    \/ Break
    \/ Normalize

Spec == Init /\ [][Next]_vars

FunSpec == FunInit /\ [][FunNext]_vars

\* Fair scheduling of sample_pagerank: a statement that can be executed is
\* executed, and an outcome of random.random() that is possible again and
\* again (the draw is not below damping_factor) is eventually drawn.
FairSpec ==
    /\ Spec
    /\ WF_vars(ForNext)
    /\ WF_vars(Visit)
    /\ WF_vars(Normalize)
    /\ SF_vars(Break)

(* ===================== properties: transition_model =================== *)

NumPages == Cardinality(DOMAIN corpus)

\* A call transition_model(corpus, page, damping_factor) with a damping
\* factor of (0, 1] has returned result.
TmReturned == pc = "tm_done" /\ ValidDamping(damping_factor)

\* The distribution the specification defines: (1-d)/N for every page plus
\* d/k for the k pages linked from p, and 1/N for every page when k = 0.
reference(c, p, d) ==
    LET k  == Cardinality(c[p])
        N  == RInt(Cardinality(DOMAIN c))
    IN  [q \in DOMAIN c |->
            IF k > 0
            THEN RAdd(RDiv(RSub(One, d), N),
                      IF q \in c[p] THEN RDiv(d, RInt(k)) ELSE Zero)
            ELSE RDiv(One, N)]

\* C1: for every corpus without self-links, every page p and every damping
\* factor d of (0, 1], transition_model(corpus, p, d) is the reference
\* distribution: (1-d)/N for every page plus d/k for the pages p links to,
\* and 1/N for every page when p links to none.
C1_MatchesReference ==
    TmReturned => result = reference(corpus, page, damping_factor)

\* C2: for every valid corpus, page p and d of (0, 1], the keys of the
\* mapping transition_model returns are exactly the pages of the corpus and
\* its values sum to exactly 1.
C2_KeysAndSum ==
    TmReturned =>
        /\ DOMAIN result = DOMAIN corpus
        /\ RSum(result) = One

\* C2 witness: a call for a page with links, in a corpus of three pages one
\* of which the page does not link to, has returned.
C2_Witness ==
    /\ TmReturned
    /\ NumPages = 3
    /\ Cardinality(corpus[page]) = 1
    /\ damping_factor = DAMPING

\* C3 as claimed: for every valid corpus, page p and d of (0, 1], d = 1
\* included, transition_model gives every page of the corpus a strictly
\* positive probability.
C3_PositiveEverywhere ==
    TmReturned =>
        \A q \in DOMAIN corpus :
            q \in DOMAIN result /\ RLess(Zero, result[q])

\* C3 as amended: every page of the corpus gets a strictly positive
\* probability when d < 1 or p links to no page; when d = 1 and p links to
\* some page, exactly the pages p links to get a strictly positive
\* probability and every other page gets 0.
C3_PositiveBelowOne ==
    TmReturned =>
        \A q \in DOMAIN corpus :
            /\ q \in DOMAIN result
            /\ IF damping_factor = One /\ corpus[page] # {} /\ q \notin corpus[page]
               THEN result[q] = Zero
               ELSE RLess(Zero, result[q])

\* C3 witness: with d = 1, a call for a page that links to one page of three
\* has returned.
C3_Witness ==
    /\ TmReturned
    /\ damping_factor = One
    /\ NumPages = 3
    /\ Cardinality(corpus[page]) = 1

\* C10: for every corpus without self-links, every page p and every d of
\* (0, 1], the list of pages p does not link to contains p, so it is never
\* empty and the recursive call of line 100 is never reached:
\* transition_model returns without recursing.
C10_NeverRecurses ==
    (pc \in {"tm_done", "tm_error"} /\ ValidDamping(damping_factor)) =>
        /\ page \in none_linked_pages(corpus, page)
        /\ ~tm_recurses(corpus, page, damping_factor)
        /\ pc = "tm_done"

\* C10 witness: a call has returned for a page that links to every other
\* page of a corpus of three, so that the page itself is the only page it
\* does not link to.
C10_Witness ==
    /\ TmReturned
    /\ NumPages = 3
    /\ none_linked_pages(corpus, page) = {page}

(* ===================== properties: sample_pagerank ==================== *)

\* The model has counted every visit of the run.
Exact == visits <= MaxVisits

\* C4: for every non-empty valid corpus, every d and every n >= 1, when
\* sample_pagerank returns, the keys of the result are exactly the pages of
\* the corpus, each value is the page's counter divided by the sum of the
\* counters, that sum is the number of visits made, it is at least n, and
\* the values sum to exactly 1.  (Checked for the runs of at most MaxVisits
\* visits.)
C4_Normalized ==
    (pc = "sample_done" /\ NumPages > 0 /\ n >= 1 /\ Exact) =>
        /\ DOMAIN result = DOMAIN corpus
        /\ Sum(pagerank) = visits
        /\ visits >= n
        /\ \A q \in DOMAIN corpus : result[q] = Frac(pagerank[q], visits)
        /\ RSum(result) = One

\* C4 witness: sample_pagerank has returned after two rounds of together
\* more than two visits, on a corpus of two pages.
C4_Witness ==
    /\ pc = "sample_done"
    /\ NumPages = 2
    /\ n = 2
    /\ Exact
    /\ visits > n
    /\ \A q \in DOMAIN corpus : pagerank[q] > 0

\* sample_pagerank is at its loop, called within its preconditions.
SampleRunning ==
    pc = "for" /\ NumPages > 0 /\ n >= 1 /\ ValidDamping(damping_factor)

SampleRunningBelowOne ==
    SampleRunning /\ damping_factor # One

\* sample_pagerank has returned or raised.
SampleEnded == pc \in {"sample_done", "sample_error"}

\* C7: for every non-empty valid corpus, every n >= 1 and every d of (0, 1],
\* d = 1 included, a call of sample_pagerank eventually returns or fails,
\* given fair draws.
C7_Terminates == SampleRunning ~> SampleEnded

\* The same for the damping factors below 1 only.
C7_TerminatesBelowOne == SampleRunningBelowOne ~> SampleEnded

(* ==================== properties: iterate_pagerank ==================== *)

NonNegative(f) == \A q \in DOMAIN f : RLeq(Zero, f[q])

\* C5: for every non-empty valid corpus and every d of (0, 1], d = 1
\* included, iterate_pagerank returns a rank for every page of the corpus,
\* the ranks are not negative and sum to 1, and the final normalization
\* never divides by zero.
C5_ReturnsDistribution ==
    (NumPages > 0 /\ ValidDamping(damping_factor)) =>
        /\ pc # "iterate_error"
        /\ pc = "iterate_done" =>
              /\ DOMAIN result = DOMAIN corpus
              /\ NonNegative(result)
              /\ RSum(result) = One

\* The convergence threshold of the specification, 0.001.
Threshold == <<1, 1000>>

\* What the pages linking to q hand to q: d * r(p) / |L(p)| from a page p
\* with links, d * r(p) / N from a page p without links.
Inflow(c, d, r, q) ==
    RSumOver([p \in DOMAIN c |->
                 IF q \in c[p]
                 THEN RDiv(RMul(d, r[p]), RInt(Cardinality(c[p])))
                 ELSE IF c[p] = {}
                 THEN RDiv(RMul(d, r[p]), RInt(Cardinality(DOMAIN c)))
                 ELSE Zero],
             DOMAIN c)

\* One application of the PageRank recurrence to the rank vector r.
Recurrence(c, d, r) ==
    [q \in DOMAIN c |->
        RAdd(RDiv(RSub(One, d), RInt(Cardinality(DOMAIN c))), Inflow(c, d, r, q))]

\* C6: for every valid corpus and every d of (0, 1), the result of
\* iterate_pagerank is a fixed point of the PageRank recurrence: applying
\* the recurrence to it changes no rank by more than 0.001.
C6_FixedPoint ==
    (pc = "iterate_done" /\ ValidDamping(damping_factor) /\ damping_factor # One) =>
        \A q \in DOMAIN corpus :
            RLeq(RAbs(RSub(Recurrence(corpus, damping_factor, result)[q], result[q])),
                 Threshold)

\* The pages the loop of line 187 has gone through.
Processed == DOMAIN corpus \ todo

\* C8: in iterate_pagerank every page p, with or without links, hands out
\* d * rank(p) in total, so that the link ranks sum to d times the ranks of
\* the pages gone through, and the ranks before the normalization sum to
\* (1 - d) + d * (1 - d) whether or not the corpus has a page without links.
C8_MassConserved ==
    /\ pc = "link" =>
          RSum(link_rank) = RMul(damping_factor, RSumOver(base_rank, Processed))
    /\ pc = "normalize_total" =>
          RSum(total_rank) =
              RAdd(RSub(One, damping_factor),
                   RMul(damping_factor, RSub(One, damping_factor)))

(* ======================= properties: preconditions ==================== *)

\* C9: a call that violates a precondition never returns a rank vector:
\* sample_pagerank fails for an empty corpus, for a damping factor outside
\* (0, 1] and for n <= 0; iterate_pagerank fails for an empty corpus and for
\* a damping factor outside (0, 1].
C9_InvalidArgumentFails ==
    /\ (NumPages = 0 \/ ~ValidDamping(damping_factor) \/ n <= 0) =>
          pc # "sample_done"
    /\ (NumPages = 0 \/ ~ValidDamping(damping_factor)) =>
          pc # "iterate_done"

====
